---- MODULE Spec2Model ----
(***************************************************************************)
(* The workflow graph builder of swc-plugin-workflow (transform/src/       *)
(* graph.rs): GraphBuilder records start/add/finish events into one linear *)
(* graph per workflow name.                                                *)
(***************************************************************************)
EXTENDS Integers, Sequences, FiniteSets, TLC

(* ---------------------------------------------------------------- bounds *)

\* The largest number of add_step_node/add_workflow_node calls that take
\* effect within one recording.
MaxAdds == 2

(* ---------------------------------------------------------------- inputs *)

\* Option::None, for current_workflow, prev_node_id and NodeData.step_id.
None == "<none>"

\* The workflow names given to start_workflow.
Names == {"Order", "Refund"}

\* The <<file_path, workflow_id>> pairs given to start_workflow.
Metas == {<<"order.ts", "wf1">>, <<"refund.ts", "wf2">>}

\* The <<step_name, step_id, line>> triples given to add_step_node.
Steps == {<<"Validate", "s1", 10>>, <<"Charge", "s2", 20>>}

\* The <<workflow_name, workflow_id, line>> triples given to
\* add_workflow_node; the called workflow is itself one of Names.
Calls == {<<"Refund", "wf2", 30>>}

(* ----------------------------------------------------------------- state *)

VARIABLES
    graphs,            \* HashMap<String, WorkflowGraph>
    current_workflow,  \* Option<String>
    current_y,         \* f64, always a multiple of 100.0 here
    node_count,        \* usize
    prev_node_id,      \* Option<String>
    call,              \* the builder call made last: [op, args]
    hist,              \* per name, the calls of its latest recording
    manifest           \* <<m>> once to_manifest returned m, <<>> before

builder == <<graphs, current_workflow, current_y, node_count, prev_node_id>>

vars == <<graphs, current_workflow, current_y, node_count, prev_node_id,
          call, hist, manifest>>

\* The builder as one value, the `self` of the methods.
Self ==
    [graphs |-> graphs, current_workflow |-> current_workflow,
     current_y |-> current_y, node_count |-> node_count,
     prev_node_id |-> prev_node_id]

\* HashMap::insert: the value under key k is replaced, other keys are kept.
Insert(map, k, v) ==
    [x \in DOMAIN map \cup {k} |-> IF x = k THEN v ELSE map[x]]

(* -------------------------------------------------------------- methods *)

\* GraphBuilder::new
new ==
    [graphs |-> <<>>, current_workflow |-> None, current_y |-> 0,
     node_count |-> 0, prev_node_id |-> None]

\* EdgeId naming the target before the source.
EdgeIdSwapped(prev_id, id) == "e_" \o id \o "_" \o prev_id

\* format!("e_{}_{}", prev_id, id)
EdgeId(prev_id, id) == "e_" \o prev_id \o "_" \o id

\* NodeId numbering the generated ids as if the start node took no slot.
NodeIdFromZero(n) == "node_" \o ToString(n - 1)

\* format!("node_{}", self.node_count)
NodeId(n) == "node_" \o ToString(n)

\* Edge with the endpoints exchanged.
EdgeReversed(prev_id, id) ==
    [id |-> EdgeId(prev_id, id), source |-> id, target |-> prev_id,
     edge_type |-> "default"]

\* The GraphEdge built from prev_node_id to the node being added.
Edge(prev_id, id) ==
    [id |-> EdgeId(prev_id, id), source |-> prev_id, target |-> id,
     edge_type |-> "default"]

\* add_node that advances current_y and node_count even when no workflow is
\* current.
AddNodeCountsAlways(self, id, node_type, label, node_kind, step_id, line) ==
    IF self.current_workflow # None
       /\ self.current_workflow \in DOMAIN self.graphs
    THEN LET workflow_name == self.current_workflow
             graph == self.graphs[workflow_name]
             node == [id |-> id, node_type |-> node_type,
                      position |-> [x |-> 250, y |-> self.current_y],
                      data |-> [label |-> label, node_kind |-> node_kind,
                                step_id |-> step_id, line |-> line]]
             edges == IF self.prev_node_id # None
                      THEN Append(graph.edges, Edge(self.prev_node_id, id))
                      ELSE graph.edges
             grown == [graph EXCEPT !.edges = edges,
                                    !.nodes = Append(graph.nodes, node)]
         IN [self EXCEPT !.graphs = Insert(self.graphs, workflow_name, grown),
                         !.prev_node_id = id,
                         !.current_y = self.current_y + 100,
                         !.node_count = self.node_count + 1]
    ELSE [self EXCEPT !.current_y = self.current_y + 100,
                      !.node_count = self.node_count + 1]

\* GraphBuilder::add_node
add_node(self, id, node_type, label, node_kind, step_id, line) ==
    IF self.current_workflow # None
       /\ self.current_workflow \in DOMAIN self.graphs
    THEN LET workflow_name == self.current_workflow
             graph == self.graphs[workflow_name]
             node == [id |-> id, node_type |-> node_type,
                      position |-> [x |-> 250, y |-> self.current_y],
                      data |-> [label |-> label, node_kind |-> node_kind,
                                step_id |-> step_id, line |-> line]]
             edges == IF self.prev_node_id # None
                      THEN Append(graph.edges, Edge(self.prev_node_id, id))
                      ELSE graph.edges
             grown == [graph EXCEPT !.edges = edges,
                                    !.nodes = Append(graph.nodes, node)]
         IN [self EXCEPT !.graphs = Insert(self.graphs, workflow_name, grown),
                         !.prev_node_id = id,
                         !.current_y = self.current_y + 100,
                         !.node_count = self.node_count + 1]
    ELSE self

\* reset that keeps the graph already stored under name.
ResetKeepsGraph(self, name, file_path, workflow_id) ==
    LET graph == [workflow_id |-> workflow_id, workflow_name |-> name,
                  file_path |-> file_path, nodes |-> <<>>, edges |-> <<>>]
    IN [self EXCEPT !.graphs = IF name \in DOMAIN self.graphs
                               THEN self.graphs
                               ELSE Insert(self.graphs, name, graph),
                    !.current_workflow = name,
                    !.current_y = 0,
                    !.node_count = 0,
                    !.prev_node_id = None]

\* reset that starts from an empty graphs map.
ResetClearsGraphs(self, name, file_path, workflow_id) ==
    LET graph == [workflow_id |-> workflow_id, workflow_name |-> name,
                  file_path |-> file_path, nodes |-> <<>>, edges |-> <<>>]
    IN [self EXCEPT !.graphs = Insert(<<>>, name, graph),
                    !.current_workflow = name,
                    !.current_y = 0,
                    !.node_count = 0,
                    !.prev_node_id = None]

\* reset that keeps recording into the workflow that is current, if any,
\* instead of making name current.
ResetKeepsCurrent(self, name, file_path, workflow_id) ==
    LET graph == [workflow_id |-> workflow_id, workflow_name |-> name,
                  file_path |-> file_path, nodes |-> <<>>, edges |-> <<>>]
    IN [self EXCEPT !.graphs = Insert(self.graphs, name, graph),
                    !.current_workflow = IF self.current_workflow = None
                                         THEN name
                                         ELSE self.current_workflow,
                    !.current_y = 0,
                    !.node_count = 0,
                    !.prev_node_id = None]

\* reset that stores the graph and makes it current but resets none of
\* current_y, node_count and prev_node_id.
ResetKeepsCounters(self, name, file_path, workflow_id) ==
    LET graph == [workflow_id |-> workflow_id, workflow_name |-> name,
                  file_path |-> file_path, nodes |-> <<>>, edges |-> <<>>]
    IN [self EXCEPT !.graphs = Insert(self.graphs, name, graph),
                    !.current_workflow = name]

\* reset that leaves current_y as the previous workflow left it.
ResetKeepsY(self, name, file_path, workflow_id) ==
    LET graph == [workflow_id |-> workflow_id, workflow_name |-> name,
                  file_path |-> file_path, nodes |-> <<>>, edges |-> <<>>]
    IN [self EXCEPT !.graphs = Insert(self.graphs, name, graph),
                    !.current_workflow = name,
                    !.node_count = 0,
                    !.prev_node_id = None]

\* reset that leaves node_count as the previous workflow left it.
ResetKeepsCount(self, name, file_path, workflow_id) ==
    LET graph == [workflow_id |-> workflow_id, workflow_name |-> name,
                  file_path |-> file_path, nodes |-> <<>>, edges |-> <<>>]
    IN [self EXCEPT !.graphs = Insert(self.graphs, name, graph),
                    !.current_workflow = name,
                    !.current_y = 0,
                    !.prev_node_id = None]

\* reset that leaves prev_node_id as the previous workflow left it.
ResetKeepsPrev(self, name, file_path, workflow_id) ==
    LET graph == [workflow_id |-> workflow_id, workflow_name |-> name,
                  file_path |-> file_path, nodes |-> <<>>, edges |-> <<>>]
    IN [self EXCEPT !.graphs = Insert(self.graphs, name, graph),
                    !.current_workflow = name,
                    !.current_y = 0,
                    !.node_count = 0]

\* The first half of GraphBuilder::start_workflow: the empty graph is stored
\* under name and the per-workflow fields are reset.
reset(self, name, file_path, workflow_id) ==
    LET graph == [workflow_id |-> workflow_id, workflow_name |-> name,
                  file_path |-> file_path, nodes |-> <<>>, edges |-> <<>>]
    IN [self EXCEPT !.graphs = Insert(self.graphs, name, graph),
                    !.current_workflow = name,
                    !.current_y = 0,
                    !.node_count = 0,
                    !.prev_node_id = None]

\* start_workflow that adds the start node before it stores the graph.
StartNodeBeforeReset(self, name, file_path, workflow_id) ==
    reset(add_node(self, "start", "workflowStart", "Start: " \o name,
                   "workflow_start", None, 0),
          name, file_path, workflow_id)

\* GraphBuilder::start_workflow
start_workflow(self, name, file_path, workflow_id) ==
    add_node(reset(self, name, file_path, workflow_id), "start",
             "workflowStart", "Start: " \o name, "workflow_start", None, 0)

\* GraphBuilder::add_step_node
add_step_node(self, step_name, step_id, line) ==
    add_node(self, NodeId(self.node_count), "step", step_name, "step",
             step_id, line)

\* add_workflow_node that tags the node as a step node.
AddWorkflowNodeAsStep(self, workflow_name, workflow_id, line) ==
    add_node(self, NodeId(self.node_count), "step", workflow_name, "step",
             workflow_id, line)

\* GraphBuilder::add_workflow_node
add_workflow_node(self, workflow_name, workflow_id, line) ==
    add_node(self, NodeId(self.node_count), "workflowCall", workflow_name,
             "workflow", workflow_id, line)

\* with_end that takes the current graph out of the map and drops it.
WithEndTakesGraph(self) ==
    IF self.current_workflow # None
       /\ self.current_workflow \in DOMAIN self.graphs
    THEN [self EXCEPT !.graphs =
             [k \in DOMAIN self.graphs \ {self.current_workflow}
              |-> self.graphs[k]]]
    ELSE self

\* The `if let` block of GraphBuilder::finish_workflow: the end node and the
\* closing edge join the current graph.
with_end(self) ==
    IF self.current_workflow # None
       /\ self.current_workflow \in DOMAIN self.graphs
    THEN LET workflow_name == self.current_workflow
             graph == self.graphs[workflow_name]
             end_node == [id |-> "end", node_type |-> "workflowEnd",
                          position |-> [x |-> 250, y |-> self.current_y],
                          data |-> [label |-> "Return",
                                    node_kind |-> "workflow_end",
                                    step_id |-> None, line |-> 0]]
             edges == IF self.prev_node_id # None
                      THEN Append(graph.edges, Edge(self.prev_node_id, "end"))
                      ELSE graph.edges
             grown == [graph EXCEPT !.edges = edges,
                                    !.nodes = Append(graph.nodes, end_node)]
         IN [self EXCEPT !.graphs = Insert(self.graphs, workflow_name, grown)]
    ELSE self

\* finish_workflow that also resets current_y and node_count.
FinishResetsCounters(self) ==
    [with_end(self) EXCEPT !.current_workflow = None, !.prev_node_id = None,
                           !.current_y = 0, !.node_count = 0]

\* finish_workflow that clears prev_node_id but leaves the workflow current.
FinishKeepsWorkflow(self) == [with_end(self) EXCEPT !.prev_node_id = None]

\* finish_workflow that does not clear current_workflow and prev_node_id.
FinishKeepsCurrent(self) == with_end(self)

\* GraphBuilder::finish_workflow
finish_workflow(self) ==
    [with_end(self) EXCEPT !.current_workflow = None, !.prev_node_id = None]

\* has_workflows that counts finished graphs only.
HasFinishedWorkflows(self) ==
    \E n \in DOMAIN self.graphs :
        \E i \in 1..Len(self.graphs[n].nodes) :
            self.graphs[n].nodes[i].id = "end"

\* to_manifest that hands over the finished graphs only.
ToManifestFinishedOnly(self) ==
    [version |-> "1.0.0",
     workflows |->
        [n \in {k \in DOMAIN self.graphs :
                   \E i \in 1..Len(self.graphs[k].nodes) :
                       self.graphs[k].nodes[i].id = "end"}
         |-> self.graphs[n]]]

\* GraphBuilder::to_manifest
to_manifest(self) == [version |-> "1.0.0", workflows |-> self.graphs]

\* GraphBuilder::has_workflows
has_workflows(self) == DOMAIN self.graphs # {}

(* -------------------------------------------------------------- actions *)

\* The builder fields after a method returned the builder value s.
Becomes(s) ==
    /\ graphs' = s.graphs
    /\ current_workflow' = s.current_workflow
    /\ current_y' = s.current_y
    /\ node_count' = s.node_count
    /\ prev_node_id' = s.prev_node_id

\* to_manifest takes the builder by value: once it has been called the
\* builder is moved out and no method can be called on it.
Owned == manifest = <<>>

\* Whether an add-node call may still be made: a recording takes at most
\* MaxAdds of them (calls with no current workflow are always allowed).
Room ==
    current_workflow # None =>
        Len(hist[current_workflow].adds) < MaxAdds

\* The slot of workflow name n: Uninitialized until start_workflow names it,
\* Recording while it is current, Finished once finish_workflow closed it,
\* Abandoned when another start_workflow took over before that.
Slot(n) ==
    IF n \notin DOMAIN hist THEN "Uninitialized"
    ELSE IF hist[n].finished THEN "Finished"
    ELSE IF current_workflow = n THEN "Recording"
    ELSE "Abandoned"

\* The record of a call: the operation, its arguments, the workflow that was
\* current when it was made and the slot it addressed.
Call(op, args, n) ==
    [op |-> op, args |-> args, was_current |-> current_workflow,
     was_slot |-> IF n = None THEN "None" ELSE Slot(n)]

\* The log of a recording that start_workflow has just opened.
Opened(file_path, workflow_id) ==
    [file_path |-> file_path, workflow_id |-> workflow_id, adds |-> <<>>,
     finished |-> FALSE]

\* The log after an add-node call c: it joins the current recording, if any.
Logged(c) ==
    IF current_workflow # None
    THEN [hist EXCEPT ![current_workflow].adds = Append(@, c)]
    ELSE hist

Init ==
    /\ graphs = new.graphs
    /\ current_workflow = new.current_workflow
    /\ current_y = new.current_y
    /\ node_count = new.node_count
    /\ prev_node_id = new.prev_node_id
    /\ call = [op |-> "new", args |-> <<>>, was_current |-> None,
               was_slot |-> "None"]
    /\ hist = <<>>
    /\ manifest = <<>>

StartWorkflow(name, meta) ==
    /\ Owned
    /\ UNCHANGED manifest
    /\ Becomes(start_workflow(Self, name, meta[1], meta[2]))
    /\ call' = Call("start_workflow", <<name, meta[1], meta[2]>>, name)
    /\ hist' = [n \in DOMAIN hist \cup {name} |->
                   IF n = name THEN Opened(meta[1], meta[2]) ELSE hist[n]]

AddStepNode(step) ==
    /\ Owned
    /\ Room
    /\ UNCHANGED manifest
    /\ Becomes(add_step_node(Self, step[1], step[2], step[3]))
    /\ call' = Call("add_step_node", step, current_workflow)
    /\ hist' = Logged([op |-> "add_step_node", args |-> step])

AddWorkflowNode(c) ==
    /\ Owned
    /\ Room
    /\ UNCHANGED manifest
    /\ Becomes(add_workflow_node(Self, c[1], c[2], c[3]))
    /\ call' = Call("add_workflow_node", c, current_workflow)
    /\ hist' = Logged([op |-> "add_workflow_node", args |-> c])

FinishWorkflow ==
    /\ Owned
    /\ UNCHANGED manifest
    /\ Becomes(finish_workflow(Self))
    /\ call' = Call("finish_workflow", <<>>, current_workflow)
    /\ hist' = IF current_workflow # None
               THEN [hist EXCEPT ![current_workflow].finished = TRUE]
               ELSE hist

ToManifest ==
    /\ Owned
    /\ manifest' = <<to_manifest(Self)>>
    /\ call' = Call("to_manifest", <<>>, current_workflow)
    /\ UNCHANGED <<builder, hist>>

Next ==
    \/ \E name \in Names, meta \in Metas : StartWorkflow(name, meta)
    \/ \E step \in Steps : AddStepNode(step)
    \/ \E c \in Calls : AddWorkflowNode(c)
    \/ FinishWorkflow
    \/ ToManifest

Spec == Init /\ [][Next]_vars

(* --------------------------------------------------------------- claims *)

\* The node ids of graph g, in creation order.
Ids(g) == [i \in 1..Len(g.nodes) |-> g.nodes[i].id]

\* Whether graph g holds a node with the given id.
HasNode(g, id) == \E i \in 1..Len(g.nodes) : g.nodes[i].id = id

\* The add-node operations.
AddOps == {"add_step_node", "add_workflow_node"}

\* C1: a recording start_workflow(n); k add-node calls; finish_workflow,
\* made after any earlier calls, leaves under n a graph of k + 2 nodes and
\* k + 1 edges, from "start" to "end", whose i-th edge joins the i-th node to
\* the (i+1)-th.
C1_LinearPath ==
    \A n \in DOMAIN hist :
        hist[n].finished =>
            /\ n \in DOMAIN graphs
            /\ LET g == graphs[n]
                   k == Len(hist[n].adds)
               IN /\ Len(g.nodes) = k + 2
                  /\ Len(g.edges) = k + 1
                  /\ g.nodes[1].id = "start"
                  /\ g.nodes[k + 2].id = "end"
                  /\ \A i \in 1..(k + 1) :
                        /\ g.edges[i].source = g.nodes[i].id
                        /\ g.edges[i].target = g.nodes[i + 1].id

\* C1 witness: a recording of two add-node calls of both kinds has just been
\* finished while the other workflow lies abandoned from earlier calls.
C1_Witness ==
    /\ call.op = "finish_workflow"
    /\ call.was_current # None
    /\ \E n \in DOMAIN hist, m \in DOMAIN hist :
          /\ n = call.was_current
          /\ hist[n].finished
          /\ Len(hist[n].adds) = 2
          /\ hist[n].adds[1].op # hist[n].adds[2].op
          /\ Slot(m) = "Abandoned"

C3_UniqueIds ==
    \A n \in DOMAIN graphs :
        \A i, j \in 1..Len(graphs[n].nodes) :
            i # j => graphs[n].nodes[i].id # graphs[n].nodes[j].id

\* C3 witness: a finished graph with two generated ids next to start and end,
\* reached by a finish_workflow that was followed by one more finish_workflow.
C3_Witness ==
    /\ call.op = "finish_workflow"
    /\ call.was_current = None
    /\ \E n \in DOMAIN graphs :
          /\ Len(graphs[n].nodes) = 4
          /\ HasNode(graphs[n], "start")
          /\ HasNode(graphs[n], "end")

\* C4: every graph the builder holds, recorded, finished or abandoned, has
\* one edge less than it has nodes.
C4_EdgesOneLess ==
    \A n \in DOMAIN graphs :
        Len(graphs[n].edges) = Len(graphs[n].nodes) - 1

\* C4 witness: an abandoned graph with an added node, and the workflow
\* started over it being recorded with an added node of its own.
C4_Witness ==
    \E n \in DOMAIN graphs, m \in DOMAIN graphs :
        /\ Slot(n) = "Abandoned"
        /\ Len(graphs[n].nodes) >= 2
        /\ Slot(m) = "Recording"
        /\ Len(graphs[m].nodes) >= 2

\* The workflow name a call works on: the name given to start_workflow, else
\* the workflow current when the call is made.
Target == IF call'.op = "start_workflow" THEN call'.args[1]
          ELSE current_workflow

\* Whether the step is a start_workflow call for name n.
Starts(n) == call'.op = "start_workflow" /\ call'.args[1] = n

\* C5: with no workflow current, add_step_node, add_workflow_node and
\* finish_workflow leave graphs, current_workflow, current_y, node_count
\* and prev_node_id as they were.
C5_NoOpWithoutCurrent ==
    [][(current_workflow = None
        /\ call'.op \in AddOps \cup {"finish_workflow"})
       => UNCHANGED builder]_vars

\* C5 witness: an add-node call made after finish_workflow and before the
\* next start_workflow, with a graph in the builder.
C5_Witness ==
    /\ call.op \in AddOps
    /\ call.was_current = None
    /\ \E n \in DOMAIN graphs : Slot(n) = "Finished"

\* C6: start_workflow with a name that is already a key of graphs leaves
\* under it the new start node alone, no edge, and the workflow_id and
\* file_path of this call; and in every state the graph under a name holds
\* the file_path, the workflow_id and the nodes of the latest recording of
\* that name only.
C6_Replaced ==
    /\ [][\A n \in DOMAIN graphs :
            Starts(n) =>
                /\ n \in DOMAIN graphs'
                /\ Len(graphs'[n].nodes) = 1
                /\ graphs'[n].nodes[1].id = "start"
                /\ graphs'[n].edges = <<>>
                /\ graphs'[n].file_path = call'.args[2]
                /\ graphs'[n].workflow_id = call'.args[3]]_vars
    /\ [](\A n \in DOMAIN hist :
            /\ n \in DOMAIN graphs
            /\ graphs[n].file_path = hist[n].file_path
            /\ graphs[n].workflow_id = hist[n].workflow_id
            /\ Len(graphs[n].nodes) = 1 + Len(hist[n].adds)
                                        + (IF hist[n].finished THEN 1 ELSE 0)
            /\ \A j \in 1..Len(hist[n].adds) :
                  /\ graphs[n].nodes[j + 1].data.label = hist[n].adds[j].args[1]
                  /\ graphs[n].nodes[j + 1].data.step_id
                        = hist[n].adds[j].args[2]
                  /\ graphs[n].nodes[j + 1].data.line = hist[n].adds[j].args[3])

\* C6 witness: start_workflow has just been called with the name of an
\* abandoned graph that held an added node, and with other file_path and
\* workflow_id than the graph of the other name.
C6_Witness ==
    /\ call.op = "start_workflow"
    /\ call.was_slot = "Abandoned"
    /\ \E m \in DOMAIN graphs :
          /\ m # call.args[1]
          /\ graphs[m].workflow_id # call.args[3]
          /\ graphs[m].file_path # call.args[2]

\* C7: a call changes at most the graph under the name it works on; the
\* graph under every other name stays in the builder as it was.
C7_OthersUntouched ==
    [][\A n \in DOMAIN graphs :
          n # Target => (n \in DOMAIN graphs' /\ graphs'[n] = graphs[n])]_vars

\* C7 witness: an add-node call has grown the current graph while the graph
\* of the other name, with nodes of its own, is in the builder.
C7_Witness ==
    /\ call.op \in AddOps
    /\ call.was_current # None
    /\ \E n \in DOMAIN graphs :
          /\ n # call.was_current
          /\ Len(graphs[n].nodes) >= 2

\* C8: has_workflows is false on a new builder and as long as start_workflow
\* was never called, and true in every state after the first start_workflow.
C8_HasWorkflows ==
    /\ has_workflows(Self) <=> (DOMAIN hist # {})
    /\ call.op = "new" => ~has_workflows(Self)

\* C8 witness: has_workflows is true while the only workflow started is
\* still being recorded.
C8_Witness ==
    /\ has_workflows(Self)
    /\ Cardinality(DOMAIN hist) = 1
    /\ current_workflow # None
    /\ call.op \in AddOps

\* C9: start_workflow(m) while another workflow n is current leaves n's
\* graph in the builder as it was, without an end node, and no later call
\* other than start_workflow(n) changes it.
C9_Abandoned ==
    [][\A n \in DOMAIN graphs :
          /\ (current_workflow = n /\ call'.op = "start_workflow"
              /\ ~Starts(n))
             => /\ n \in DOMAIN graphs'
                /\ graphs'[n] = graphs[n]
                /\ ~HasNode(graphs'[n], "end")
          /\ (Slot(n) = "Abandoned" /\ ~Starts(n))
             => /\ n \in DOMAIN graphs'
                /\ graphs'[n] = graphs[n]
                /\ ~HasNode(graphs'[n], "end")]_vars

\* C9 witness: a workflow with an added node was abandoned and a
\* finish_workflow for the workflow started over it has been made since.
C9_Witness ==
    /\ call.op = "finish_workflow"
    /\ call.was_current # None
    /\ \E n \in DOMAIN graphs :
          /\ Slot(n) = "Abandoned"
          /\ Len(graphs[n].nodes) >= 2

\* C10: every graph in the builder has a first node, with id "start", type
\* workflowStart, kind workflow_start and label "Start: <name>" for the name
\* the graph is stored under.
C10_StartNodeFirst ==
    \A n \in DOMAIN graphs :
        /\ Len(graphs[n].nodes) >= 1
        /\ graphs[n].workflow_name = n
        /\ graphs[n].nodes[1].id = "start"
        /\ graphs[n].nodes[1].node_type = "workflowStart"
        /\ graphs[n].nodes[1].data.node_kind = "workflow_start"
        /\ graphs[n].nodes[1].data.label = "Start: " \o n

\* C10 witness: a graph that start_workflow has just created over a finished
\* one, next to the graph of the other name.
C10_Witness ==
    /\ call.op = "start_workflow"
    /\ call.was_slot = "Finished"
    /\ Cardinality(DOMAIN graphs) = 2
    /\ Len(graphs[call.args[1]].nodes) = 1

\* C11: to_manifest returns version "1.0.0" and, as workflows, the graphs of
\* the builder at that moment: one for every name ever given to
\* start_workflow, unfinished and abandoned ones included, each the latest
\* graph of its name; and no builder call follows it.
C11_Manifest ==
    manifest # <<>> =>
        /\ call.op = "to_manifest"
        /\ manifest[1].version = "1.0.0"
        /\ DOMAIN manifest[1].workflows = DOMAIN hist
        /\ \A n \in DOMAIN hist :
              /\ n \in DOMAIN graphs
              /\ manifest[1].workflows[n] = graphs[n]
              /\ manifest[1].workflows[n].workflow_id = hist[n].workflow_id
              /\ Len(manifest[1].workflows[n].nodes)
                    = 1 + Len(hist[n].adds)
                        + (IF hist[n].finished THEN 1 ELSE 0)

\* C11 witness: to_manifest was called with one graph abandoned and the
\* other still being recorded.
C11_Witness ==
    /\ manifest # <<>>
    /\ \E n \in DOMAIN manifest[1].workflows,
          m \in DOMAIN manifest[1].workflows :
          /\ Slot(n) = "Abandoned"
          /\ Slot(m) = "Recording"

\* C12: in every graph the node at index i (from 0, start and end nodes
\* included) lies at x = 250 and y = 100 * i.
C12_Positions ==
    \A n \in DOMAIN graphs :
        \A i \in 1..Len(graphs[n].nodes) :
            /\ graphs[n].nodes[i].position.x = 250
            /\ graphs[n].nodes[i].position.y = 100 * (i - 1)

\* C12 witness: start, two added nodes and end at y = 0, 100, 200, 300 in a
\* graph finished after the other workflow had been finished.
C12_Witness ==
    /\ call.op = "finish_workflow"
    /\ call.was_current # None
    /\ LET g == graphs[call.was_current]
       IN /\ Len(g.nodes) = 4
          /\ g.nodes[4].id = "end"
          /\ g.nodes[4].position.y = 300
    /\ \E m \in DOMAIN hist :
          /\ m # call.was_current
          /\ hist[m].finished

\* C13: in every graph the edge at index i runs from node i to node i + 1,
\* both ends are ids of nodes of that graph, its id is
\* "e_<source>_<target>", its type is "default", and the edge ids of the
\* graph are pairwise distinct.
C13_Edges ==
    \A n \in DOMAIN graphs :
        LET g == graphs[n]
        IN /\ \A i \in 1..Len(g.edges) :
                 /\ i + 1 <= Len(g.nodes)
                 /\ g.edges[i].source = g.nodes[i].id
                 /\ g.edges[i].target = g.nodes[i + 1].id
                 /\ HasNode(g, g.edges[i].source)
                 /\ HasNode(g, g.edges[i].target)
                 /\ g.edges[i].id
                       = "e_" \o g.edges[i].source \o "_" \o g.edges[i].target
                 /\ g.edges[i].edge_type = "default"
           /\ \A i, j \in 1..Len(g.edges) :
                 i # j => g.edges[i].id # g.edges[j].id

\* C13 witness: a finished graph with three edges next to an abandoned graph
\* with an edge of its own.
C13_Witness ==
    \E n \in DOMAIN graphs, m \in DOMAIN graphs :
        /\ Slot(n) = "Finished"
        /\ Len(graphs[n].edges) = 3
        /\ Slot(m) = "Abandoned"
        /\ Len(graphs[m].edges) >= 1

\* C14: add_step_node and add_workflow_node draw on one counter: of two
\* add-node calls that follow each other in a recording, in any mix, the
\* second gets the number of the first plus 1; and start_workflow restarts
\* the numbering, so every recording's first generated id is the same.
C14_SharedCounter ==
    /\ \A n \in DOMAIN hist :
          \A j \in 1..(Len(hist[n].adds) - 1) :
              /\ Len(graphs[n].nodes) >= j + 2
              /\ \E k \in 0..Len(graphs[n].nodes) :
                    /\ graphs[n].nodes[j + 1].id = "node_" \o ToString(k)
                    /\ graphs[n].nodes[j + 2].id = "node_" \o ToString(k + 1)
    /\ \A n \in DOMAIN hist, m \in DOMAIN hist :
          (Len(hist[n].adds) >= 1 /\ Len(hist[m].adds) >= 1) =>
              /\ Len(graphs[n].nodes) >= 2
              /\ Len(graphs[m].nodes) >= 2
              /\ graphs[n].nodes[2].id = graphs[m].nodes[2].id

\* C14 witness: a recording with an add_step_node and an add_workflow_node
\* call, made after a recording of the other name with two add-node calls.
C14_Witness ==
    /\ call.op \in AddOps
    /\ call.was_current # None
    /\ LET h == hist[call.was_current]
       IN /\ Len(h.adds) = 2
          /\ h.adds[1].op # h.adds[2].op
    /\ \E m \in DOMAIN hist :
          /\ m # call.was_current
          /\ Len(hist[m].adds) = 2

\* C15: finish_workflow with a workflow current appends one "end" node and
\* one edge from prev_node_id to "end" to the current graph, sets
\* current_workflow and prev_node_id to none and leaves node_count and
\* current_y as they were; a finish_workflow right after a finish_workflow
\* changes nothing in the builder.
C15_Finish ==
    [][/\ (current_workflow # None /\ call'.op = "finish_workflow") =>
            LET c == current_workflow
                ns == Len(graphs[c].nodes)
                es == Len(graphs[c].edges)
            IN /\ c \in DOMAIN graphs'
               /\ Len(graphs'[c].nodes) = ns + 1
               /\ SubSeq(graphs'[c].nodes, 1, ns) = graphs[c].nodes
               /\ graphs'[c].nodes[ns + 1].id = "end"
               /\ Len(graphs'[c].edges) = es + 1
               /\ SubSeq(graphs'[c].edges, 1, es) = graphs[c].edges
               /\ graphs'[c].edges[es + 1].source = prev_node_id
               /\ graphs'[c].edges[es + 1].target = "end"
               /\ current_workflow' = None
               /\ prev_node_id' = None
               /\ node_count' = node_count
               /\ current_y' = current_y
       /\ (call.op = "finish_workflow" /\ call'.op = "finish_workflow") =>
            UNCHANGED builder]_vars

\* C15 witness: finish_workflow closed a recording with one added node, so
\* node_count is still 2 and current_y still 200 with no workflow current.
C15_Witness ==
    /\ call.op = "finish_workflow"
    /\ call.was_current # None
    /\ current_workflow = None
    /\ prev_node_id = None
    /\ node_count = 2
    /\ current_y = 200

\* The add-node call c made on the builder value self.
ApplyAdd(self, c) ==
    IF c.op = "add_step_node"
    THEN add_step_node(self, c.args[1], c.args[2], c.args[3])
    ELSE add_workflow_node(self, c.args[1], c.args[2], c.args[3])

RECURSIVE ReplayAdds(_, _)
\* The add-node calls adds made in order on the builder value self.
ReplayAdds(self, adds) ==
    IF adds = <<>> THEN self
    ELSE ReplayAdds(ApplyAdd(self, Head(adds)), Tail(adds))

\* The graph under n when the recording logged as h is made on a new
\* builder, with no call before it.
OnNewBuilder(n, h) ==
    LET started == start_workflow(new, n, h.file_path, h.workflow_id)
        added == ReplayAdds(started, h.adds)
    IN (IF h.finished THEN finish_workflow(added) ELSE added).graphs[n]

\* C16: the graph a finished recording leaves under its name is the same
\* after every history of earlier calls: it equals the graph the same
\* recording leaves on a new builder.
C16_HistoryIndependent ==
    \A n \in DOMAIN hist :
        hist[n].finished =>
            /\ n \in DOMAIN graphs
            /\ graphs[n] = OnNewBuilder(n, hist[n])

\* C16 witness: a recording with add-node calls was finished after the other
\* workflow had been recorded with add-node calls and abandoned.
C16_Witness ==
    /\ call.op = "finish_workflow"
    /\ call.was_current # None
    /\ Len(hist[call.was_current].adds) >= 1
    /\ \E m \in DOMAIN hist :
          /\ Slot(m) = "Abandoned"
          /\ Len(hist[m].adds) = 2

\* The slot of name n as the graphs map gs shows it: Uninitialized without a
\* graph, Finished with an end node, Recording otherwise.
Stage(gs, n) ==
    IF n \notin DOMAIN gs THEN "Uninitialized"
    ELSE IF HasNode(gs[n], "end") THEN "Finished"
    ELSE "Recording"

\* C17: a slot changes only from Uninitialized or Finished to a fresh
\* Recording by start_workflow of its name, and from Recording to Finished by
\* finish_workflow while it is current; a name that is a key of graphs stays
\* one; and the current workflow, if any, is one name whose slot is
\* Recording.
C17_Slots ==
    /\ [][\A n \in Names :
            LET a == Stage(graphs, n)
                b == Stage(graphs', n)
            IN /\ a # b =>
                    \/ /\ a \in {"Uninitialized", "Finished"}
                       /\ b = "Recording"
                       /\ Starts(n)
                    \/ /\ a = "Recording"
                       /\ b = "Finished"
                       /\ call'.op = "finish_workflow"
                       /\ current_workflow = n
               /\ Starts(n) =>
                    /\ b = "Recording"
                    /\ Len(graphs'[n].nodes) = 1
               /\ n \in DOMAIN graphs => n \in DOMAIN graphs']_vars
    /\ [](/\ current_workflow \in Names \cup {None}
          /\ current_workflow # None =>
                Stage(graphs, current_workflow) = "Recording")

\* C17 witness: start_workflow has just been called again with the name of
\* the workflow being recorded, while the other name's slot is Finished.
C17_Witness ==
    /\ call.op = "start_workflow"
    /\ call.was_slot = "Recording"
    /\ \E m \in DOMAIN graphs : Stage(graphs, m) = "Finished"

\* The payloads of the nodes of every graph: the node of the j-th add-node
\* call carries the type, kind and step reference of its operation and the
\* label and line given; the start and end nodes carry no step reference and
\* line 0.
Payloads ==
    \A n \in DOMAIN hist :
        /\ n \in DOMAIN graphs
        /\ Len(graphs[n].nodes) >= 1 + Len(hist[n].adds)
        /\ \A j \in 1..Len(hist[n].adds) :
              LET node == graphs[n].nodes[j + 1]
                  c == hist[n].adds[j]
              IN /\ node.data.label = c.args[1]
                 /\ node.data.step_id = c.args[2]
                 /\ node.data.line = c.args[3]
                 /\ c.op = "add_step_node" =>
                       /\ node.node_type = "step"
                       /\ node.data.node_kind = "step"
                 /\ c.op = "add_workflow_node" =>
                       /\ node.node_type = "workflowCall"
                       /\ node.data.node_kind = "workflow"
        /\ \A i \in 1..Len(graphs[n].nodes) :
              graphs[n].nodes[i].id \in {"start", "end"} =>
                  /\ graphs[n].nodes[i].data.step_id = None
                  /\ graphs[n].nodes[i].data.line = 0

\* C18 as claimed: the payloads are as above, and add_workflow_node changes
\* only the current graph and never the graph stored under the name of the
\* called workflow.
C18_CalleeNeverChanged ==
    /\ []Payloads
    /\ [][call'.op = "add_workflow_node" =>
            /\ \A n \in DOMAIN graphs :
                  n # current_workflow => graphs'[n] = graphs[n]
            /\ call'.args[1] \in DOMAIN graphs =>
                  graphs'[call'.args[1]] = graphs[call'.args[1]]]_vars

\* C18 as amended: the payloads are as above, and add_workflow_node changes
\* only the current graph; the graph stored under the name of the called
\* workflow stays as it was unless that name is the current workflow itself.
C18_CalleeChangedOnlyAsCurrent ==
    /\ []Payloads
    /\ [][call'.op = "add_workflow_node" =>
            /\ \A n \in DOMAIN graphs :
                  n # current_workflow =>
                      (n \in DOMAIN graphs' /\ graphs'[n] = graphs[n])
            /\ (call'.args[1] \in DOMAIN graphs
                /\ call'.args[1] # current_workflow) =>
                  graphs'[call'.args[1]] = graphs[call'.args[1]]
            /\ (current_workflow # None
                /\ call'.args[1] = current_workflow) =>
                  Len(graphs'[current_workflow].nodes)
                     = Len(graphs[current_workflow].nodes) + 1]_vars

\* C18 witness: add_workflow_node has recorded, in the current graph, a call
\* of the workflow whose own graph is stored under the other name, after an
\* add_step_node call.
C18_Witness ==
    /\ call.op = "add_workflow_node"
    /\ call.was_current # None
    /\ call.was_current # call.args[1]
    /\ call.args[1] \in DOMAIN graphs
    /\ Len(graphs[call.args[1]].nodes) >= 2
    /\ hist[call.was_current].adds[1].op = "add_step_node"

\* C19: a graph with an "end" node has it as its last node, and no call
\* other than start_workflow of its name changes the graph; that call
\* replaces it.
C19_Frozen ==
    /\ [](\A n \in DOMAIN graphs :
            HasNode(graphs[n], "end") =>
                graphs[n].nodes[Len(graphs[n].nodes)].id = "end")
    /\ [][\A n \in DOMAIN graphs :
            HasNode(graphs[n], "end") =>
                /\ n \in DOMAIN graphs'
                /\ ~Starts(n) => graphs'[n] = graphs[n]
                /\ Starts(n) =>
                      /\ Len(graphs'[n].nodes) = 1
                      /\ graphs'[n].edges = <<>>]_vars

\* C19 witness: an add_workflow_node call was made after finish_workflow and
\* before the next start_workflow, and the finished graph of four nodes
\* still ends in "end".
C19_Witness ==
    /\ call.op = "add_workflow_node"
    /\ call.was_current = None
    /\ \E n \in DOMAIN graphs :
          /\ Len(graphs[n].nodes) = 4
          /\ graphs[n].nodes[4].id = "end"

====
